---- MODULE Spec2Model ----
(***************************************************************************)
(* Model of reminder.py: the polling loop run_reminder_loop, one           *)
(* reconciliation cycle check_and_remind, and the messaging platform it    *)
(* talks to.  Each call of the platform API is one step of the model, with *)
(* three outcomes: "ok" (the call returns), "err" (slack.errors.           *)
(* SlackApiError, caught inside the helper that issued the call) and       *)
(* "raise" (any other exception, which leaves check_and_remind and is      *)
(* caught by run_reminder_loop).  A call has succeeded when it returns: a  *)
(* call that ends in "err" or "raise" has changed nothing on the platform. *)
(* Only the API calls can fail; the statements between them cannot.        *)
(*                                                                         *)
(* The functions that work on one ticket's text have specifications of     *)
(* their own: ExtractSpec applies extract_ticket_info to every body of a   *)
(* bounded length, ResolverSpec runs reply_to_original_thread (with        *)
(* extract_sender_from_ticket, extract_team_from_ticket and                *)
(* get_last_human_replier) on every such body while the ticket's thread    *)
(* fills with replies.  A body is a sequence of tokens, and each regular   *)
(* expression is modelled by what it matches on such sequences.            *)
(***************************************************************************)
EXTENDS Integers, Sequences, FiniteSets, TLC

\* ------------------------------------------------------------------ bounds
MaxMsgs == 2      \* messages the monitored channel can hold
MaxTs == 2        \* reminder identifiers that can be in use at the same time
MaxText == 4      \* tokens in a ticket body handed to reply_to_original_thread
MaxReplies == 2   \* replies a ticket's thread can hold
MaxBody == 4      \* tokens in a ticket body handed to extract_ticket_info

\* --------------------------------------------------------------- constants
Results == {"ok", "err", "raise"}

\* check_and_remind skips exactly these subtypes
SystemSubtypes == {"channel_join", "channel_leave", "channel_topic", "channel_purpose"}

\* subtypes a message of the channel can carry; "none" stands for every message
\* the loop does not skip (no subtype, or a bot/workflow subtype)
Subtypes == {"none"} \cup SystemSubtypes

MsgIds == 1..MaxMsgs

VARIABLES
    \* the platform
    channel,            \* monitored channel: sequence of subtypes, oldest first; a message's ts is its index
    checkmark,          \* set of messages that carry the white_check_mark reaction
    alerts,             \* alerts channel: set of <<ticket, reminder ts>> posted and not deleted
    \* module globals of reminder.py
    sent_reminders,     \* dict: original message ts -> reminder ts
    resolved_messages,  \* set of message ts
    \* run_reminder_loop / check_and_remind control state and locals
    pc,
    monitored_channel_id,   \* TRUE when resolved, FALSE when None
    alerts_channel_id,
    all_messages,       \* get_all_messages accumulator
    cursor,             \* get_all_messages cursor (0: None or empty)
    messages,           \* the list check_and_remind iterates
    i,                  \* index of the current message in messages
    \* observation (history) variables
    log,                \* the API calls issued for the message the loop body is handling or has just handled
    handled,            \* the messages the loop body has been entered for in the current cycle
    failed,             \* TRUE when a call for a message ended in an API error in the current cycle
    outcome,            \* how the current or last cycle stands: "running", "completed", "exception"
    endCount,           \* per message: successful end-of-ticket posts over the whole run (capped)
    delFailed,          \* reminders not deleted yet for which a delete call has failed
    calm,               \* consecutive cycles in which every call succeeded and the platform did not change
    \* one ticket seen by the text functions and by reply_to_original_thread
    message_text,       \* the ticket body, a sequence of tokens
    info,               \* what extract_ticket_info returned: <<>> before the call, <<dict>> after
    thread,             \* the replies in the ticket's thread, oldest first
    replies,            \* reply_to_original_thread: what get_thread_replies returned
    who_to_remind,      \* reply_to_original_thread: the addressee
    reason,             \* reply_to_original_thread: the reason
    reply_text          \* reply_to_original_thread: the text of the reply, in parts

vars == <<channel, checkmark, alerts, sent_reminders, resolved_messages,
          pc, monitored_channel_id, alerts_channel_id, all_messages, cursor,
          messages, i, log, handled, failed, outcome, endCount, delFailed, calm>>

platform == <<channel, checkmark, alerts>>
tables == <<sent_reminders, resolved_messages>>
locals == <<monitored_channel_id, alerts_channel_id, all_messages, cursor, messages, i>>

\* the ticket the text functions work on, and what they computed; the polling
\* loop leaves these alone
aside == <<message_text, info, thread, replies, who_to_remind, reason, reply_text>>
allvars == <<vars, aside>>

\* Python's None
None == "None"

\* ----------------------------------------------------------------- helpers
Min(a, b) == IF a < b THEN a ELSE b

\* sent_reminders.get(m): 0 stands for "no entry"
EntryOf(m) == IF m \in DOMAIN sent_reminders THEN sent_reminders[m] ELSE 0

\* the message being handled by the loop body
cur == messages[i]

\* what is recorded of a call issued for message m: the operation, its outcome,
\* the value has_checkmark_reaction returned (lookup only), the reminder m had in
\* sent_reminders when the call was issued, and whether a delete of that
\* reminder had failed before
Entry(op, m, res, chk) ==
    [op |-> op, m |-> m, res |-> res, chk |-> chk, ts |-> EntryOf(m),
     again |-> EntryOf(m) \in delFailed]

Calls(op, m) == {k \in DOMAIN log : log[k].op = op /\ log[k].m = m}

\* a call that did not succeed ends a calm streak
CalmAfter(res) == IF res = "ok" THEN calm ELSE 0

FailedAfter(res) == failed \/ res = "err"

\* the polling loop before its first cycle
InitLoop ==
    /\ channel = <<>>
    /\ checkmark = {}
    /\ alerts = {}
    /\ sent_reminders = <<>>
    /\ resolved_messages = {}
    /\ pc = "chan_mon"
    /\ monitored_channel_id = FALSE
    /\ alerts_channel_id = FALSE
    /\ all_messages = <<>>
    /\ cursor = 0
    /\ messages = <<>>
    /\ i = 0
    /\ log = <<>>
    /\ handled = {}
    /\ failed = FALSE
    /\ outcome = "running"
    /\ endCount = [m \in MsgIds |-> 0]
    /\ delFailed = {}
    /\ calm = 1

\* no text function has been called
InitAside ==
    /\ info = <<>>
    /\ thread = <<>>
    /\ replies = <<>>
    /\ who_to_remind = None
    /\ reason = None
    /\ reply_text = <<>>

Init ==
    /\ InitLoop
    /\ message_text = <<>>
    /\ InitAside

\* ------------------------------------------------------------ the platform
\* The bot sees the channel only through conversations_history and a reaction
\* only through reactions_get.  A change made by the people of the channel is
\* therefore placed where it can make a difference: while the bot sleeps, right
\* before the call that reads it, and, for the message the loop body is
\* handling, between any two calls of the body.
BodyPcs == {"lookup", "delete", "ended", "remind", "replies", "reply", "react"}

CanToggle(m) == pc \in {"sleep", "lookup"} \/ (pc \in BodyPcs /\ m = cur)

\* somebody posts a message (or a system event is recorded) in the monitored channel
NewMessage ==
    /\ pc \in {"sleep", "history"}
    /\ Len(channel) < MaxMsgs
    /\ \E st \in Subtypes : channel' = Append(channel, st)
    /\ calm' = 0
    /\ UNCHANGED <<checkmark, alerts, tables, pc, locals, log, handled, failed, outcome, endCount, delFailed, aside>>

\* somebody adds the checkmark reaction to a message
AddCheckmark ==
    /\ \E m \in DOMAIN channel :
        /\ CanToggle(m)
        /\ m \notin checkmark
        /\ checkmark' = checkmark \cup {m}
    /\ calm' = 0
    /\ UNCHANGED <<channel, alerts, tables, pc, locals, log, handled, failed, outcome, endCount, delFailed, aside>>

\* somebody removes the checkmark reaction again
RemoveCheckmark ==
    /\ \E m \in checkmark :
        /\ CanToggle(m)
        /\ checkmark' = checkmark \ {m}
    /\ calm' = 0
    /\ UNCHANGED <<channel, alerts, tables, pc, locals, log, handled, failed, outcome, endCount, delFailed, aside>>


\* ------------------------------------------------------ run_reminder_loop
\* check_and_remind is left (by return or by an exception): its frame, and with
\* it every local, is gone
DropFrame ==
    /\ handled' = {}
    /\ failed' = FALSE
    /\ monitored_channel_id' = FALSE
    /\ alerts_channel_id' = FALSE
    /\ all_messages' = <<>>
    /\ cursor' = 0
    /\ messages' = <<>>
    /\ i' = 0

\* variant of Caught: no except clause, the exception ends the process
Caught_Uncaught ==
    /\ pc' = "crashed"
    /\ outcome' = "exception"
    /\ DropFrame

\* the except clause of run_reminder_loop: the cycle is abandoned where it
\* stands and the loop goes on to time.sleep
Caught ==
    /\ pc' = "sleep"
    /\ outcome' = "exception"
    /\ DropFrame

\* variant of Fatal: the helpers do not catch SlackApiError
Fatal_ApiErrorEscapes(res) == res # "ok"

\* which outcomes of an API call leave the helper that issued it: the helpers
\* catch slack.errors.SlackApiError and nothing else
Fatal(res) == res = "raise"

\* check_and_remind returns (early return, or the summary after the loop);
\* run_reminder_loop goes on to time.sleep
Return ==
    /\ pc' = "sleep"
    /\ outcome' = "completed"
    /\ DropFrame

\* time.sleep(check_interval_seconds) returns and the while loop calls
\* check_and_remind again: a new cycle begins
StartCycle ==
    /\ pc = "sleep"
    /\ pc' = "chan_mon"
    /\ outcome' = "running"
    /\ log' = <<>>
    /\ calm' = IF calm >= 1 THEN 2 ELSE 1
    /\ UNCHANGED <<platform, tables, locals, handled, failed, endCount, delFailed, aside>>

\* ------------------------------------------------------- check_and_remind
\* get_channel_id(MONITORED_CHANNEL): "ok" returns the id; "err" returns None
\* (SlackApiError while listing, or no channel of that name)
GetMonitoredChannel ==
    /\ pc = "chan_mon"
    /\ \E res \in Results :
        /\ calm' = CalmAfter(res)
        /\ IF Fatal(res)
           THEN Caught
           ELSE /\ monitored_channel_id' = (res = "ok")
                /\ pc' = "chan_alert"
                /\ UNCHANGED <<outcome, alerts_channel_id, all_messages, cursor, messages, i,
                               handled, failed>>
    /\ UNCHANGED <<platform, tables, log, endCount, delFailed, aside>>

\* get_channel_id(ALERTS_CHANNEL), then the two "if not ..._channel_id: return"
GetAlertsChannel ==
    /\ pc = "chan_alert"
    /\ \E res \in Results :
        /\ calm' = CalmAfter(res)
        /\ IF Fatal(res)
           THEN Caught
           ELSE IF monitored_channel_id /\ res = "ok"
                THEN /\ alerts_channel_id' = TRUE
                     /\ pc' = "history"
                     /\ UNCHANGED <<outcome, monitored_channel_id, all_messages, cursor,
                                    messages, i, handled, failed>>
                ELSE Return
    /\ UNCHANGED <<platform, tables, log, endCount, delFailed, aside>>

\* variant of HistoryAfterError: the pages fetched before the failure are returned
HistoryAfterError_KeepPages(got) == got

\* get_all_messages, except SlackApiError: return []
HistoryAfterError(got) == <<>>

\* get_all_messages: one conversations_history call.  The platform returns the
\* newest messages first and decides how many go into the page; the cursor it
\* hands back names the next older message (0: no more pages).
GetHistoryPage ==
    /\ pc = "history"
    /\ LET top == IF cursor = 0 THEN Len(channel) ELSE cursor IN
       \E res \in Results :
        /\ calm' = CalmAfter(res)
        /\ CASE Fatal(res) -> Caught
             [] res = "ok" ->
                  \E n \in (IF top = 0 THEN {0} ELSE 1..top) :
                    LET page == [k \in 1..n |-> top - k + 1]
                        got == all_messages \o page
                    IN /\ all_messages' = got
                       /\ cursor' = top - n
                       /\ IF top - n = 0
                          THEN /\ messages' = got
                               /\ pc' = "msg"
                               /\ i' = 1
                          ELSE /\ pc' = "history"
                               /\ UNCHANGED <<messages, i>>
                       /\ UNCHANGED <<outcome, monitored_channel_id, alerts_channel_id,
                                      handled, failed>>
             [] OTHER ->
                  /\ messages' = HistoryAfterError(all_messages)
                  /\ pc' = "msg"
                  /\ i' = 1
                  /\ UNCHANGED <<outcome, monitored_channel_id, alerts_channel_id,
                                 all_messages, cursor, handled, failed>>
    /\ UNCHANGED <<platform, tables, log, endCount, delFailed, aside>>

\* variant of IsSystemMessage: channel_purpose is missing from the list
IsSystemMessage_NoPurpose(st) == st \in {"channel_join", "channel_leave", "channel_topic"}

\* the subtype test at the top of the loop body
IsSystemMessage(st) == st \in SystemSubtypes

\* for message in messages: the loop head and the system-message skip
NextMessage ==
    /\ pc = "msg"
    /\ log' = <<>>
    /\ IF i > Len(messages)
       THEN Return
       ELSE /\ IF IsSystemMessage(channel[cur])
               THEN i' = i + 1 /\ UNCHANGED <<pc, handled>>
               ELSE pc' = "lookup" /\ handled' = handled \cup {cur} /\ UNCHANGED i
            /\ UNCHANGED <<outcome, monitored_channel_id, alerts_channel_id,
                           all_messages, cursor, messages, failed>>
    /\ UNCHANGED <<platform, tables, endCount, delFailed, calm, aside>>

\* control moves on inside the loop body, or to the next message ("msg")
Goto(target) ==
    /\ pc' = target
    /\ i' = IF target = "msg" THEN i + 1 ELSE i
    /\ UNCHANGED <<outcome, monitored_channel_id, alerts_channel_id,
                   all_messages, cursor, messages, handled>>

\* has_checkmark_reaction: False when the lookup fails
HasCheckmark(res) == res = "ok" /\ cur \in checkmark

\* where the loop body goes once the resolved branch has dealt with the reminder
AfterDelete == IF cur \notin resolved_messages THEN "ended" ELSE "msg"

\* variant of AfterLookup: the "already alerted" test is missing
AfterLookup_NoSkip(has_checkmark) ==
    IF has_checkmark
    THEN IF cur \in DOMAIN sent_reminders THEN "delete" ELSE AfterDelete
    ELSE "remind"

\* variant of AfterLookup: a reminder whose delete failed once is not deleted again
AfterLookup_NoRetry(has_checkmark) ==
    IF has_checkmark
    THEN IF cur \in DOMAIN sent_reminders /\ sent_reminders[cur] \notin delFailed
         THEN "delete"
         ELSE AfterDelete
    ELSE IF cur \in DOMAIN sent_reminders THEN "msg" ELSE "remind"

\* variant of AfterLookup: a ticket already alerted gets the thread reply and
\* the reaction again
AfterLookup_Renudge(has_checkmark) ==
    IF has_checkmark
    THEN IF cur \in DOMAIN sent_reminders THEN "delete" ELSE AfterDelete
    ELSE IF cur \in DOMAIN sent_reminders THEN "replies" ELSE "remind"

\* the branches of the loop body on has_checkmark and sent_reminders
AfterLookup(has_checkmark) ==
    IF has_checkmark
    THEN IF cur \in DOMAIN sent_reminders THEN "delete" ELSE AfterDelete
    ELSE IF cur \in DOMAIN sent_reminders THEN "msg" ELSE "remind"

\* has_checkmark = has_checkmark_reaction(monitored_channel_id, message_ts)
Lookup ==
    /\ pc = "lookup"
    /\ \E res \in Results :
        /\ log' = Append(log, Entry("lookup", cur, res, HasCheckmark(res)))
        /\ calm' = CalmAfter(res)
        /\ IF Fatal(res) THEN Caught ELSE Goto(AfterLookup(HasCheckmark(res))) /\ failed' = FailedAfter(res)
    /\ UNCHANGED <<platform, tables, endCount, delFailed, aside>>

\* variant of SentAfterDelete: the entry is never removed
SentAfterDelete_Keep(res) == sent_reminders

\* variant of SentAfterDelete: the entry is removed whatever delete_reminder returned
SentAfterDelete_Always(res) == [m \in DOMAIN sent_reminders \ {cur} |-> sent_reminders[m]]

\* delete_reminder's caller: del sent_reminders[message_ts] when the delete succeeded
SentAfterDelete(res) ==
    IF res = "ok"
    THEN [m \in DOMAIN sent_reminders \ {cur} |-> sent_reminders[m]]
    ELSE sent_reminders

\* if delete_reminder(alerts_channel_id, reminder_ts): del sent_reminders[message_ts]
Delete ==
    /\ pc = "delete"
    /\ \E res \in Results :
        /\ log' = Append(log, Entry("delete", cur, res, TRUE))
        /\ calm' = CalmAfter(res)
        /\ alerts' = IF res = "ok" THEN alerts \ {<<cur, sent_reminders[cur]>>} ELSE alerts
        /\ delFailed' = IF res = "ok"
                        THEN delFailed \ {sent_reminders[cur]}
                        ELSE delFailed \cup {sent_reminders[cur]}
        /\ IF Fatal(res)
           THEN Caught /\ UNCHANGED sent_reminders
           ELSE /\ sent_reminders' = SentAfterDelete(res)
                /\ failed' = FailedAfter(res)
                /\ Goto(AfterDelete)
    /\ UNCHANGED <<channel, checkmark, resolved_messages, endCount, aside>>

\* resolved_messages.add(message_ts) after post_date_ended returned
ResolvedAfterEnded(res) == resolved_messages \cup {cur}

\* post_date_ended(monitored_channel_id, message_ts); resolved_messages.add(message_ts)
PostDateEnded ==
    /\ pc = "ended"
    /\ \E res \in Results :
        /\ log' = Append(log, Entry("ended", cur, res, TRUE))
        /\ calm' = CalmAfter(res)
        /\ endCount' = IF res = "ok"
                       THEN [endCount EXCEPT ![cur] = Min(@ + 1, 2)]
                       ELSE endCount
        /\ IF Fatal(res)
           THEN Caught /\ UNCHANGED resolved_messages
           ELSE /\ resolved_messages' = ResolvedAfterEnded(res)
                /\ failed' = FailedAfter(res)
                /\ Goto("msg")
    /\ UNCHANGED <<platform, sent_reminders, delFailed, aside>>

\* result.get("ts") of a successful post: an identifier nobody holds, neither the
\* alerts channel nor the bot's table (identifiers are only ever compared for equality)
FreeTs == (1..MaxTs) \ ({a[2] : a \in alerts} \cup {sent_reminders[m] : m \in DOMAIN sent_reminders})
NewTs == CHOOSE t \in FreeTs : \A u \in FreeTs : t <= u

\* if reminder_ts: the thread reply and the reaction follow a reminder that was posted
AfterRemind(res) == IF res = "ok" THEN "replies" ELSE "msg"

\* variant of SentAfterRemind: the "if reminder_ts" test is missing, so a failed
\* post records an entry too (0: the None that send_reminder returned)
SentAfterRemind_Unchecked(res) ==
    [m \in DOMAIN sent_reminders \cup {cur} |->
        IF m = cur THEN (IF res = "ok" THEN NewTs ELSE 0) ELSE sent_reminders[m]]

\* sent_reminders[message_ts] = reminder_ts
SentAfterRemind(res) ==
    IF res = "ok"
    THEN [m \in DOMAIN sent_reminders \cup {cur} |-> IF m = cur THEN NewTs ELSE sent_reminders[m]]
    ELSE sent_reminders

\* reminder_ts = send_reminder(...); if reminder_ts: sent_reminders[message_ts] = reminder_ts
SendReminder ==
    /\ pc = "remind"
    /\ \E res \in Results :
        /\ res = "ok" => FreeTs # {}
        /\ log' = Append(log, Entry("remind", cur, res, FALSE))
        /\ calm' = CalmAfter(res)
        /\ alerts' = IF res = "ok" THEN alerts \cup {<<cur, NewTs>>} ELSE alerts
        /\ IF Fatal(res)
           THEN Caught /\ UNCHANGED sent_reminders
           ELSE /\ sent_reminders' = SentAfterRemind(res)
                /\ failed' = FailedAfter(res)
                /\ Goto(AfterRemind(res))
    /\ UNCHANGED <<channel, checkmark, resolved_messages, endCount, delFailed, aside>>

\* reply_to_original_thread: replies = get_thread_replies(channel_id, thread_ts)
\* (an empty list when the call fails)
GetThreadReplies ==
    /\ pc = "replies"
    /\ \E res \in Results :
        /\ log' = Append(log, Entry("replies", cur, res, FALSE))
        /\ calm' = CalmAfter(res)
        /\ IF Fatal(res) THEN Caught ELSE Goto("reply") /\ failed' = FailedAfter(res)
    /\ UNCHANGED <<platform, tables, endCount, delFailed, aside>>

\* variant of AfterReply: a failed thread reply skips the reaction
AfterReply_StopOnError(res) == IF res = "ok" THEN "react" ELSE "msg"

\* reply_to_original_thread returns whether or not its post succeeded
AfterReply(res) == "react"

\* reply_to_original_thread: client.chat_postMessage(thread_ts=...)
PostThreadReply ==
    /\ pc = "reply"
    /\ \E res \in Results :
        /\ log' = Append(log, Entry("reply", cur, res, FALSE))
        /\ calm' = CalmAfter(res)
        /\ IF Fatal(res) THEN Caught ELSE Goto(AfterReply(res)) /\ failed' = FailedAfter(res)
    /\ UNCHANGED <<platform, tables, endCount, delFailed, aside>>

\* add_checked_reaction(monitored_channel_id, message_ts)
AddCheckedReaction ==
    /\ pc = "react"
    /\ \E res \in Results :
        /\ log' = Append(log, Entry("react", cur, res, FALSE))
        /\ calm' = CalmAfter(res)
        /\ IF Fatal(res) THEN Caught ELSE Goto("msg") /\ failed' = FailedAfter(res)
    /\ UNCHANGED <<platform, tables, endCount, delFailed, aside>>

\* ---------------------------------------------------------- specification
\* the steps of the bot
Cycle ==
    \/ StartCycle
    \/ GetMonitoredChannel
    \/ GetAlertsChannel
    \/ GetHistoryPage
    \/ NextMessage
    \/ Lookup
    \/ Delete
    \/ PostDateEnded
    \/ SendReminder
    \/ GetThreadReplies
    \/ PostThreadReply
    \/ AddCheckedReaction

\* the steps of the people using the channel
People ==
    \/ NewMessage
    \/ AddCheckmark
    \/ RemoveCheckmark

Next == Cycle \/ People

Spec == Init /\ [][Next]_vars

\* the process keeps running: every call and every sleep returns
FairSpec == Spec /\ WF_vars(Cycle)


\* ------------------------------------------------- the addressee resolver
\* A ticket body is a sequence of tokens, rendered with one blank between
\* neighbours: the two labels, mentions of two users and of one user group, a
\* plain handle, and the line break.
MentionTokens == {"Sender:", "To Team:", "<@U1>", "<@U2>", "<!subteam^S1>", "@bob", "\n"}

Texts(alphabet, n) == UNION {[1..k -> alphabet] : k \in 0..n}

\* the tokens "<@([A-Z0-9]+)>" matches, and its group
UserMentions == {"<@U1>", "<@U2>"}
UserGroup(tok) == IF tok = "<@U1>" THEN "U1" ELSE "U2"

\* the tokens "<[@!]([A-Z0-9^]+)>" matches, and its group split at "^"
TeamMentions == {"<@U1>", "<@U2>", "<!subteam^S1>"}
TeamGroup(tok) ==
    CASE tok = "<@U1>" -> <<"U1">>
      [] tok = "<@U2>" -> <<"U2">>
      [] OTHER -> <<"subteam", "S1">>

\* "." matches no line break: positions j and k are on one line
SameLine(text, j, k) == \A n \in (j + 1)..(k - 1) : text[n] # "\n"

\* re.search of "<label>.*?<one of toks>": the match is <<j, k>>, j the leftmost
\* label with such a token after it on its line, k the nearest such token;
\* <<>> when nothing matches
SearchOnLine(text, label, toks) ==
    LET Hit(j, k) == k > j /\ text[k] \in toks /\ SameLine(text, j, k)
        starts == {j \in DOMAIN text : text[j] = label /\ \E k \in DOMAIN text : Hit(j, k)}
    IN IF starts = {}
       THEN <<>>
       ELSE LET j == CHOOSE a \in starts : \A b \in starts : a <= b
                ends == {k \in DOMAIN text : Hit(j, k)}
            IN <<j, CHOOSE a \in ends : \A b \in ends : a <= b>>

\* the tokens made of characters "[^*\n<>]" only
PlainTokens == {"Sender:", "To Team:", "@bob"}

\* "\*?@?" takes a leading "@" out of the captured name
WithoutAt(tok) == IF tok = "@bob" THEN "bob" ELSE tok

\* the text of tokens from..to, one blank between neighbours
RECURSIVE Joined(_, _, _)
Joined(text, from, to) ==
    IF from > to THEN ""
    ELSE IF from = to THEN text[to]
    ELSE Joined(text, from, to - 1) \o " " \o text[to]

\* re.search(r"Sender:\s*\*?@?([^*\n<>]+)") and .strip(): the match is at the
\* leftmost label that has a character after it; "\s*" runs over line breaks,
\* the group runs to the next line break or "<"; "" when only blanks are captured
\* and None when nothing matches
SenderName(text) ==
    LET labels == {j \in DOMAIN text : text[j] = "Sender:" /\ j < Len(text)}
    IN IF labels = {}
       THEN None
       ELSE LET j == CHOOSE a \in labels : \A b \in labels : a <= b
                rest == {k \in (j + 1)..Len(text) : text[k] # "\n"}
            IN IF rest = {}
               THEN ""
               ELSE LET first == CHOOSE a \in rest : \A b \in rest : a <= b
                        stops == {k \in first..Len(text) : text[k] \notin PlainTokens}
                        last == IF stops = {}
                                THEN Len(text)
                                ELSE (CHOOSE a \in stops : \A b \in stops : a <= b) - 1
                    IN IF last < first
                       THEN ""
                       ELSE IF first = last
                            THEN WithoutAt(text[first])
                            ELSE WithoutAt(text[first]) \o " " \o Joined(text, first + 1, last)

\* extract_sender_from_ticket: (user_id, mention)
extract_sender_from_ticket(text) ==
    LET match == SearchOnLine(text, "Sender:", UserMentions)
        name == SenderName(text)
    IN IF match # <<>>
       THEN LET user_id == UserGroup(text[match[2]])
            IN [id |-> user_id, mention |-> "<@" \o user_id \o ">"]
       ELSE IF name # None /\ name # ""
            THEN [id |-> None, mention |-> "@" \o name]
            ELSE [id |-> None, mention |-> None]

\* extract_team_from_ticket: (team_id, mention); the fallback
\* "To Team:.*?@([\w-]+)" finds the handle, every other "@" of the alphabet
\* being inside a mention the first pattern has matched
extract_team_from_ticket(text) ==
    LET match == SearchOnLine(text, "To Team:", TeamMentions)
        plain == SearchOnLine(text, "To Team:", {"@bob"})
    IN IF match # <<>>
       THEN LET group == TeamGroup(text[match[2]])
            IN IF Len(group) > 1
               THEN [id |-> group[2], mention |-> "<!subteam^" \o group[2] \o ">"]
               ELSE [id |-> group[1], mention |-> "<@" \o group[1] \o ">"]
       ELSE IF plain # <<>>
            THEN [id |-> None, mention |-> "@" \o "bob"]
            ELSE [id |-> None, mention |-> None]

\* the replies a thread can hold: written by a person, by a bot (this one
\* included: its reminder check and its end-of-ticket notice), or carrying a subtype
Users == {"U1", "U2"}
Human(u) == [user |-> u, bot_id |-> None, subtype |-> None]
BotReply == [user |-> "UBOT", bot_id |-> "B1", subtype |-> None]
SubtypeReply == [user |-> "U1", bot_id |-> None, subtype |-> "thread_broadcast"]

\* get_last_human_replier: the newest reply with neither bot_id nor subtype
RECURSIVE get_last_human_replier(_)
get_last_human_replier(rs) ==
    IF rs = <<>>
    THEN None
    ELSE LET reply == rs[Len(rs)]
         IN IF reply.bot_id = None /\ reply.subtype = None
            THEN reply.user
            ELSE get_last_human_replier(SubSeq(rs, 1, Len(rs) - 1))

\* Python's "a or b" on optional strings
Or(a, b) == IF a # None /\ a # "" THEN a ELSE b

\* who_to_remind = sender_mention or team_mention
RemindSender(sender_mention, team_mention) == Or(sender_mention, team_mention)

\* variant of RemindTeam: no fallback to the sender
RemindTeam_NoFallback(sender_mention, team_mention) == team_mention

\* who_to_remind = team_mention or sender_mention
RemindTeam(sender_mention, team_mention) == Or(team_mention, sender_mention)

\* reply_to_original_thread, the if/elif chain on replies and last_replier
Decide(text, rs) ==
    LET sender == extract_sender_from_ticket(text)
        team == extract_team_from_ticket(text)
        last_replier == get_last_human_replier(rs)
    IN IF rs = <<>>
       THEN [who |-> RemindSender(sender.mention, team.mention), reason |-> "No replies yet"]
       ELSE IF sender.id # None /\ last_replier = sender.id
       THEN [who |-> RemindTeam(sender.mention, team.mention),
             reason |-> "Sender replied, waiting for team"]
       ELSE IF team.id # None /\ last_replier = team.id
       THEN [who |-> RemindSender(sender.mention, team.mention),
             reason |-> "Team replied, waiting for sender"]
       ELSE [who |-> RemindSender(sender.mention, team.mention), reason |-> "Waiting for response"]

\* reply_to_original_thread, "if who_to_remind:" and the two templates
ReplyText(who, why) ==
    IF who # None /\ who # ""
    THEN <<"Reminder Check", "Hey " \o who \o "!", why, "Please react">>
    ELSE <<"Reminder Check", "Reminder sent.">>

\* a ticket with some body, nobody has replied yet
InitResolver ==
    /\ InitLoop
    /\ message_text \in Texts(MentionTokens, MaxText)
    /\ InitAside

\* somebody, or some program, replies in the ticket's thread
ThreadReply ==
    /\ Len(thread) < MaxReplies
    /\ \E r \in {Human(u) : u \in Users} \cup {BotReply, SubtypeReply} :
        thread' = Append(thread, r)
    /\ UNCHANGED <<vars, message_text, info, replies, who_to_remind, reason, reply_text>>

\* reply_to_original_thread(channel_id, thread_ts, original_message): the
\* thread is fetched (an empty list when that call fails), the addressee is
\* decided and the reply is posted (or not, when that call fails)
ReplyToOriginalThread ==
    /\ \E fetch \in {"ok", "err"}, post \in {"ok", "err"} :
        LET rs == IF fetch = "ok" THEN thread ELSE <<>>
            d == Decide(message_text, rs)
        IN /\ post = "ok" => Len(thread) < MaxReplies
           /\ replies' = rs
           /\ who_to_remind' = d.who
           /\ reason' = d.reason
           /\ reply_text' = ReplyText(d.who, d.reason)
           /\ thread' = IF post = "ok" THEN Append(thread, BotReply) ELSE thread
    /\ UNCHANGED <<vars, message_text, info>>

NextResolver == ThreadReply \/ ReplyToOriginalThread

ResolverSpec == InitResolver /\ [][NextResolver]_allvars

\* ---------------------------------------------------- extract_ticket_info
Fields == {"Date", "Province", "Project", "Type", "Customer", "Description"}

\* patterns, with re.IGNORECASE: the spellings of a field's label that occur
\* in the bodies below
LabelsOf(field) ==
    CASE field = "Date" -> {"Date:", "date:"}
      [] field = "Customer" -> {"Customer:", "Customer Name:"}
      [] OTHER -> {field \o ":"}

\* A body handed to extract_ticket_info is a sequence of tokens written one
\* after the other: labels, the blank, the line break and a word.
FieldTokens == UNION {LabelsOf(f) : f \in Fields} \cup {" ", "\n", "x"}

\* "\s" matches the blank and the line break
IsSpace(tok) == tok \in {" ", "\n"}

\* the last position of the run of white space that follows position j
SpaceEnd(text, j) ==
    LET ends == {k \in j..Len(text) : \A n \in (j + 1)..k : IsSpace(text[n])}
    IN CHOOSE a \in ends : \A b \in ends : a >= b

\* the last position of the line position p is on
LineEnd(text, p) ==
    LET ends == {e \in p..Len(text) : \A n \in p..e : text[n] # "\n"}
    IN CHOOSE a \in ends : \A b \in ends : a >= b

\* "<label>\s*(.+?)(?:\n|$)" tried at the label at position j: the bounds of
\* group 1, <<>> when there is no match.  "\s*" takes all the white space
\* after the label, line breaks included, and the group runs from there to the
\* end of that line; when white space is all that follows the label, "\s*"
\* gives back as far as the last blank, which the group takes.
MatchAt(text, j) ==
    LET q == SpaceEnd(text, j)
        blanks == {k \in (j + 1)..q : text[k] = " "}
    IN IF q < Len(text)
       THEN <<q + 1, LineEnd(text, q + 1)>>
       ELSE IF blanks = {}
            THEN <<>>
            ELSE LET b == CHOOSE a \in blanks : \A c \in blanks : a >= c
                 IN <<b, LineEnd(text, b)>>

\* re.search(pattern, message_text, re.IGNORECASE): the leftmost match, 0 when
\* there is none
SearchField(text, field) ==
    LET starts == {j \in DOMAIN text : text[j] \in LabelsOf(field) /\ MatchAt(text, j) # <<>>}
    IN IF starts = {} THEN 0 ELSE CHOOSE a \in starts : \A b \in starts : a <= b

\* str.strip()
RECURSIVE Strip(_)
Strip(str) ==
    IF str = <<>> THEN <<>>
    ELSE IF IsSpace(str[1]) THEN Strip(Tail(str))
    ELSE IF IsSpace(str[Len(str)]) THEN Strip(SubSeq(str, 1, Len(str) - 1))
    ELSE str

\* extract_ticket_info: info[field] = match.group(1).strip() for every pattern
\* that matches
extract_ticket_info(text) ==
    [field \in {f \in Fields : SearchField(text, f) # 0} |->
        LET group == MatchAt(text, SearchField(text, field))
        IN Strip(SubSeq(text, group[1], group[2]))]

\* a ticket body, extract_ticket_info not called yet
InitExtract ==
    /\ InitLoop
    /\ message_text \in Texts(FieldTokens, MaxBody)
    /\ InitAside

\* ticket_info = extract_ticket_info(message_text)
ExtractTicketInfo ==
    /\ info = <<>>
    /\ info' = <<extract_ticket_info(message_text)>>
    /\ UNCHANGED <<vars, message_text, thread, replies, who_to_remind, reason, reply_text>>

NextExtract == ExtractTicketInfo

ExtractSpec == InitExtract /\ [][NextExtract]_allvars


\* ------------------------------------------------------------ observations
\* the loop body for message log[1].m has run to its end
JustHandled == pc = "msg" /\ log # <<>>

\* the handling of message log[1].m is over: the body ran to its end, or an
\* exception abandoned the cycle inside it
Over == log # <<>> /\ pc \in {"msg", "sleep"}

\* the for loop has run out of messages
LoopDone == pc = "msg" /\ i > Len(messages)

Tickets(msgs) == {msgs[k] : k \in {j \in DOMAIN msgs : channel[msgs[j]] \notin SystemSubtypes}}

\* ------------------------------------------------------------------ claims
\* C1 -- idempotence of check_and_remind: in a cycle that follows a cycle in
\* which every call succeeded, with no change on the platform since that cycle
\* began and no failure so far, no reminder post, end-of-ticket post or delete
\* call is issued (nor the thread reply and reaction that follow a reminder),
\* and no step changes sent_reminders or resolved_messages.
C1_Idempotent ==
    /\ [](calm = 2 => pc \notin {"remind", "replies", "reply", "react", "delete", "ended"})
    /\ [][calm' = 2 => tables' = tables]_vars

\* a second calm cycle has gone through its messages, with both tables in use
C1_Witness ==
    /\ calm = 2
    /\ LoopDone
    /\ handled # {}
    /\ DOMAIN sent_reminders # {}
    /\ resolved_messages # {}

\* C2 -- sent_reminders mirrors the alerts channel: a message is a key exactly
\* when a reminder posted for it has not been deleted by a successful delete
\* call, and the value is that reminder's identifier.
C2_EntryIffLiveReminder ==
    alerts = {<<m, sent_reminders[m]>> : m \in DOMAIN sent_reminders}

\* a reminder has just been deleted while another ticket keeps its entry
C2_Witness ==
    /\ \E k \in DOMAIN log : log[k].op = "delete" /\ log[k].res = "ok"
    /\ DOMAIN sent_reminders # {}


\* C3 -- exactly one end-of-ticket notice: once the loop body has run to its end
\* for a ticket it observed with the checkmark, exactly one "Date Ended" notice
\* has been posted to the ticket's thread over the whole run.
C3_ExactlyOneEndNotice ==
    (JustHandled /\ log[1].op = "lookup" /\ log[1].chk) => endCount[log[1].m] = 1

\* C4 -- resolved_messages holds a message only if an end-of-ticket notice for
\* it has been posted successfully.
C4_ResolvedOnlyAfterPost ==
    \A m \in resolved_messages : endCount[m] >= 1

\* C5 (as stated) -- a message observed with the checkmark and holding an entry
\* gets exactly one delete call in the cycle and has lost its entry when the
\* body is done; observed with the checkmark and without an entry it gets none.
C5_DeleteAlwaysRemoves ==
    (JustHandled /\ log[1].op = "lookup" /\ log[1].chk) =>
        LET m == log[1].m IN
        IF log[1].ts # 0
        THEN Cardinality(Calls("delete", m)) = 1 /\ m \notin DOMAIN sent_reminders
        ELSE Calls("delete", m) = {}

\* C5 (amended) -- a message observed with the checkmark and holding an entry
\* gets exactly one delete call in the cycle, for the reminder of that entry;
\* the entry is gone afterwards exactly when that call succeeded, and a failed
\* call leaves it as it was; observed with the checkmark and without an entry
\* the message gets no delete call.  A delete step touches no other entry.
C5_DeleteOnce ==
    /\ [](Over /\ log[1].op = "lookup" /\ log[1].chk =>
            LET m == log[1].m
                d == Calls("delete", m)
            IN IF log[1].ts # 0
               THEN /\ Cardinality(d) = 1
                    /\ \A k \in d :
                        /\ log[k].ts = log[1].ts
                        /\ IF log[k].res = "ok"
                           THEN m \notin DOMAIN sent_reminders
                           ELSE EntryOf(m) = log[1].ts
               ELSE d = {} /\ m \notin DOMAIN sent_reminders)
    /\ [][pc = "delete" => \A m \in MsgIds \ {cur} : EntryOf(m)' = EntryOf(m)]_vars

\* a delete call succeeded for one ticket while another one keeps its entry,
\* and the body for the first has run to its end
C5_Witness ==
    /\ JustHandled
    /\ log[1].chk
    /\ \E k \in DOMAIN log : log[k].op = "delete" /\ log[k].res = "ok"
    /\ log[1].m \notin DOMAIN sent_reminders
    /\ DOMAIN sent_reminders # {}

\* C6 (as stated) -- in the alert transition all three side effects are
\* attempted: whenever the body that posted (or tried to post) a reminder has
\* run to its end, the thread reply and the reaction were attempted too.
C6_AllThreeAttempted ==
    (JustHandled /\ Calls("remind", log[1].m) # {}) =>
        /\ Calls("reply", log[1].m) # {}
        /\ Calls("react", log[1].m) # {}

\* C6 (amended) -- the alert transition is entered exactly for a message seen
\* without checkmark and without entry; it attempts the reminder post once.
\* When that post succeeds, the thread reply and the reaction are each
\* attempted once, whatever the outcome of fetching the thread, of the reply
\* and of the reaction; when it fails with an API error, neither is attempted.
C6_ReplyAndReactionAfterReminder ==
    JustHandled =>
        LET m == log[1].m
            r == Calls("remind", m)
        IN /\ (r # {}) <=> (~log[1].chk /\ log[1].ts = 0)
           /\ Cardinality(r) <= 1
           /\ \A k \in r :
                IF log[k].res = "ok"
                THEN /\ Cardinality(Calls("reply", m)) = 1
                     /\ Cardinality(Calls("react", m)) = 1
                ELSE /\ Calls("replies", m) = {}
                     /\ Calls("reply", m) = {}
                     /\ Calls("react", m) = {}

\* the thread reply failed with an API error and the reaction was attempted all the same
C6_Witness ==
    /\ JustHandled
    /\ \E k \in DOMAIN log : log[k].op = "reply" /\ log[k].res = "err"
    /\ \E k \in DOMAIN log : log[k].op = "react"

\* C7 (as stated) -- a failed delete is never retried: no delete call is issued
\* for a reminder whose delete has failed before.
C7_NeverRetried ==
    \A k \in DOMAIN log : log[k].op = "delete" => ~log[k].again

\* C7 (amended) -- after a failed delete call the entry stays in sent_reminders
\* until a delete call succeeds, and the delete is retried: every later cycle
\* that observes the ticket with the checkmark issues a delete call for the
\* same reminder again.
C7_RetriedWhileResolved ==
    /\ \A t \in delFailed : \E m \in DOMAIN sent_reminders : sent_reminders[m] = t
    /\ (Over /\ log[1].op = "lookup" /\ log[1].chk /\ log[1].again) =>
          \E k \in Calls("delete", log[1].m) : log[k].ts = log[1].ts

\* the delete of a reminder succeeds on a retry
C7_Witness ==
    \E k \in DOMAIN log : log[k].op = "delete" /\ log[k].again /\ log[k].res = "ok"

\* C8 -- a system message (channel_join, channel_leave, channel_topic,
\* channel_purpose) has no effect: the loop body is never entered for it, no
\* call is issued for it, and it is in neither table, with or without checkmark.
C8_SystemMessagesIgnored ==
    \A m \in DOMAIN channel :
        channel[m] \in SystemSubtypes =>
            /\ m \notin handled
            /\ m \notin DOMAIN sent_reminders
            /\ m \notin resolved_messages
            /\ \A k \in DOMAIN log : log[k].m # m
            /\ pc \in BodyPcs => cur # m

\* the loop has just skipped a system message that carries the checkmark
C8_Witness ==
    /\ pc = "msg"
    /\ log = <<>>
    /\ i > 1
    /\ channel[messages[i - 1]] = "channel_purpose"
    /\ messages[i - 1] \in checkmark


\* C9 -- the scheduler survives every cycle: the process is always at a step of
\* the loop; an exception raised in a cycle is caught, leaves both tables as
\* they were at that moment and takes the loop to its sleep; the only step out
\* of the sleep starts the next cycle on those tables; and, every call and
\* every sleep returning, cycles start again and again.
C9_LoopNeverStops ==
    /\ [](pc \in BodyPcs \cup {"chan_mon", "chan_alert", "history", "msg", "sleep"})
    /\ [][outcome' = "exception" /\ outcome # "exception" =>
            pc' = "sleep" /\ tables' = tables]_vars
    /\ [][pc = "sleep" /\ pc' # "sleep" => pc' = "chan_mon" /\ tables' = tables]_vars
    /\ []<>(pc = "chan_mon")

\* an exception has abandoned a cycle right after it recorded a reminder: the
\* loop is at its sleep and the entry is still there
C9_Witness ==
    /\ pc = "sleep"
    /\ outcome = "exception"
    /\ Len(log) >= 2
    /\ log[2].op = "remind"
    /\ log[2].res = "ok"
    /\ log[1].m \in DOMAIN sent_reminders

\* C10 -- an API error does not abort the cycle: a cycle is abandoned only by a
\* call that raised something else, and the loop body is entered for every
\* non-system message of the fetched history, in order, whatever calls ended in
\* an API error before.
C10_ApiErrorDoesNotAbort ==
    /\ (outcome = "exception" /\ log # <<>>) => log[Len(log)].res = "raise"
    /\ \A k \in DOMAIN log : log[k].res = "err" => (pc # "sleep" \/ k < Len(log))
    /\ pc = "msg" => handled = Tickets(SubSeq(messages, 1, Min(i - 1, Len(messages))))
    /\ LoopDone => handled = Tickets(messages)

\* the loop has gone through two tickets; a call for the first one ended in an
\* API error and every call for the second one succeeded
C10_Witness ==
    /\ LoopDone
    /\ failed
    /\ Cardinality(handled) >= 2
    /\ log # <<>>
    /\ \A k \in DOMAIN log : log[k].res = "ok"

\* the replies a decision rule is to consider: those of people, bot replies
\* and replies with a subtype left out
Considered(rs) == SelectSeq(rs, LAMBDA r : r.bot_id = None /\ r.subtype = None)

\* reply_to_original_thread has run
Resolved == reason # None

\* C11 -- the addressee decision table, bot and subtype replies left out in
\* every rule: for a ticket whose sender resolves to a user identifier and whose
\* team resolves to a mention, the resolver addresses the sender with "No
\* replies yet" when the list holds no reply to consider, the team with "Sender
\* replied, waiting for team" when the last human replier is the sender, the
\* sender with "Team replied, waiting for sender" when it is the team
\* identifier, and the sender with "Waiting for response" otherwise; for every
\* list of replies, those holding the bot's own earlier replies included.
C11_DecisionTable ==
    LET sender == extract_sender_from_ticket(message_text)
        team == extract_team_from_ticket(message_text)
        people == Considered(replies)
        last == IF people = <<>> THEN None ELSE people[Len(people)].user
    IN (Resolved /\ sender.id # None /\ team.mention # None) =>
        IF people = <<>>
        THEN who_to_remind = sender.mention /\ reason = "No replies yet"
        ELSE IF last = sender.id
        THEN who_to_remind = team.mention /\ reason = "Sender replied, waiting for team"
        ELSE IF last = team.id
        THEN who_to_remind = sender.mention /\ reason = "Team replied, waiting for sender"
        ELSE who_to_remind = sender.mention /\ reason = "Waiting for response"

\* C16 -- the addressee is none exactly when neither the sender mention nor the
\* team mention resolves from the ticket body, whichever rule decided, and the
\* reply carries a name tag exactly when there is an addressee, that of the
\* addressee.
C16_AddresseeNoneIffNoMention ==
    LET sender == extract_sender_from_ticket(message_text)
        team == extract_team_from_ticket(message_text)
    IN Resolved =>
        /\ (who_to_remind = None) <=> (sender.mention = None /\ team.mention = None)
        /\ who_to_remind # ""
        /\ IF who_to_remind = None
           THEN \A k \in DOMAIN reply_text : reply_text[k] # "Hey None!" /\ Len(reply_text) = 2
           ELSE reply_text[2] = "Hey " \o who_to_remind \o "!"

\* the sender replied last and only the sender resolves: the team rule applied
\* and fell back to the sender
C16_Witness ==
    /\ Resolved
    /\ reason = "Sender replied, waiting for team"
    /\ extract_team_from_ticket(message_text).mention = None
    /\ who_to_remind = "<@U1>"

\* the text after the label at position j up to the end of that line, trimmed
RestOfLine(text, j) ==
    LET after == {k \in (j + 1)..Len(text) : \A n \in (j + 1)..k : text[n] # "\n"}
    IN Strip([k \in 1..Cardinality(after) |-> text[j + k]])

\* C12 -- extract_ticket_info returns, for each of the six fields, the text
\* that follows the first occurrence of the field's label (in any letter case)
\* up to the end of that line, trimmed; a field whose label does not occur is
\* not in the result, and no field is in the result with an empty value or
\* with text of another line.
C12_ValueOnLabelLine ==
    info # <<>> =>
        \A f \in Fields :
            LET labels == {j \in DOMAIN message_text : message_text[j] \in LabelsOf(f)}
                first == CHOOSE a \in labels : \A b \in labels : a <= b
            IN IF labels = {} \/ RestOfLine(message_text, first) = <<>>
               THEN f \notin DOMAIN info[1]
               ELSE f \in DOMAIN info[1] /\ info[1][f] = RestOfLine(message_text, first)

\* C13 -- no duplicate reminders: a message observed without the checkmark
\* that has an entry in sent_reminders gets no call but the reaction lookup in
\* that cycle (no post, no delete, no reaction add); a reminder post is
\* attempted only for a message without entry; and each ticket has at most one
\* reminder that was posted and not deleted.
C13_NoDuplicateReminders ==
    /\ (Over /\ ~log[1].chk /\ log[1].ts # 0) =>
          /\ Len(log) = 1
          /\ EntryOf(log[1].m) = log[1].ts
    /\ pc = "remind" => cur \notin DOMAIN sent_reminders
    /\ \A m \in MsgIds : Cardinality({a \in alerts : a[1] = m}) <= 1

\* a ticket that carries the checkmark and has a reminder was passed over
\* because its reaction lookup failed, while a second ticket has a reminder too
C13_Witness ==
    /\ JustHandled
    /\ ~log[1].chk
    /\ log[1].ts # 0
    /\ log[1].m \in checkmark
    /\ Cardinality(alerts) = 2

\* C14 -- a reminder is posted only for a message that does not carry the
\* checkmark: a message that carries the checkmark when the cycle looks its
\* reactions up never goes on to the alert transition, whether the lookup call
\* succeeds or fails.
C14_ReminderOnlyWithoutCheckmark ==
    [][pc = "lookup" /\ cur \in checkmark => pc' # "remind"]_vars

\* a cycle has handled message m and every call it issued for m succeeded
HandledWell(m) == JustHandled /\ log[1].m = m /\ \A k \in DOMAIN log : log[k].res = "ok"

\* C15 -- a failed reminder post is retried: when the post for a ticket fails,
\* no entry is recorded; every cycle that finds the ticket without checkmark
\* and without entry attempts the post (again); hence a ticket that stays
\* without checkmark, and is handled again and again by cycles whose calls for
\* it succeed, eventually has an entry in sent_reminders.
C15_FailedPostRetried ==
    /\ [](Over /\ (\E k \in DOMAIN log : log[k].op = "remind" /\ log[k].res # "ok") =>
            log[1].m \notin DOMAIN sent_reminders)
    /\ [](Over /\ log[1].res # "raise" /\ ~log[1].chk /\ log[1].ts = 0 =>
            Cardinality(Calls("remind", log[1].m)) = 1)
    /\ \A m \in MsgIds :
        (<>[](m \in DOMAIN channel /\ m \notin checkmark) /\ []<>HandledWell(m)) =>
            <>(m \in DOMAIN sent_reminders)

\* the reminder post for a ticket without checkmark has just failed with an API
\* error: the body ran to its end and no entry is recorded
C15_Witness ==
    /\ JustHandled
    /\ \E k \in DOMAIN log : log[k].op = "remind" /\ log[k].res = "err"
    /\ log[1].m \notin DOMAIN sent_reminders
    /\ log[1].m \notin checkmark

\* C17 -- eventual cleanup: if a ticket carries the checkmark from some cycle
\* on and cycles whose calls for it succeed handle it again and again, then
\* eventually its reminder is deleted and its entry removed, and from then on
\* the ticket has no entry and no delete call is issued for it.
C17_EventualCleanup ==
    \A m \in MsgIds :
        (<>[](m \in checkmark) /\ []<>HandledWell(m)) =>
            <>[](m \notin DOMAIN sent_reminders /\ ~(pc = "delete" /\ cur = m))

\* C18 -- without both channel identifiers and the whole history the cycle does
\* nothing: the history is fetched only with both identifiers resolved; the
\* loop body runs only over a history fetched to its last page, so that a
\* fetch that fails on any page leaves nothing to process, the pages fetched
\* before included; and outside the loop body no step posts, deletes or
\* changes sent_reminders or resolved_messages.
C18_NothingWithoutChannelsAndHistory ==
    /\ [](pc \in BodyPcs \cup {"history", "msg"} => monitored_channel_id /\ alerts_channel_id)
    /\ [](pc \in BodyPcs => cursor = 0 /\ messages = all_messages /\ messages # <<>>)
    /\ [][pc = "chan_alert" /\ ~monitored_channel_id => pc' = "sleep"]_vars
    /\ [][pc = "chan_alert" /\ pc' # "history" => pc' = "sleep"]_vars
    /\ [][pc = "history" /\ pc' = "msg" /\ cursor' # 0 => messages' = <<>>]_vars
    /\ [][pc = "msg" /\ messages = <<>> => pc' = "sleep"]_vars
    /\ [][pc \notin BodyPcs => tables' = tables /\ alerts' = alerts]_vars

\* the history fetch has failed after a page was fetched, with a ticket in
\* each table: the loop has nothing to go through
C18_Witness ==
    /\ pc = "msg"
    /\ messages = <<>>
    /\ all_messages # <<>>
    /\ DOMAIN sent_reminders # {}
    /\ resolved_messages # {}

\* C19 -- the thread reply and the reaction follow a successful reminder post
\* of the same cycle and nothing else: they are attempted only after the post
\* for a ticket without entry succeeded and the entry is recorded, in the order
\* thread fetch, reply, reaction, each at most once, and each exactly once when
\* the body runs to its end; a cycle that finds the entry attempts neither.
C19_ReplyThenReactionOnce ==
    /\ \A k \in DOMAIN log :
        log[k].op \in {"replies", "reply", "react"} =>
            /\ k >= 3
            /\ log[2].op = "remind" /\ log[2].res = "ok" /\ log[2].ts = 0
            /\ log[k].ts # 0
            /\ log[k].op = "replies" => k = 3
            /\ log[k].op = "reply" => k = 4 /\ log[3].op = "replies"
            /\ log[k].op = "react" => k = 5 /\ log[4].op = "reply"
    /\ pc \in {"replies", "reply", "react"} =>
          /\ cur \in DOMAIN sent_reminders
          /\ Len(log) >= 2 /\ log[2].op = "remind" /\ log[2].res = "ok"
    /\ (JustHandled /\ Len(log) >= 2 /\ log[2].op = "remind" /\ log[2].res = "ok") =>
          Len(log) = 5 /\ log[5].op = "react"
    /\ (Over /\ log[1].ts # 0) => \A k \in DOMAIN log : log[k].op \notin {"replies", "reply", "react"}

\* the cycle was abandoned between the thread reply and the reaction, and the
\* entry is recorded
C19_Witness ==
    /\ pc = "sleep"
    /\ outcome = "exception"
    /\ Len(log) = 4
    /\ log[4].op = "reply"
    /\ log[4].res = "raise"
    /\ log[1].m \in DOMAIN sent_reminders

====
